---- MODULE Spec2Model ----
(***************************************************************************)
(* chessclock: the countdown clock (src/src/clock.rs), the controller loop *)
(* with its own clock (src/src/app.rs), the time-control tabs              *)
(* (src/src/tabs.rs) and the event task and handler (src/src/event.rs).    *)
(*                                                                         *)
(* Durations are counted in milliseconds.  A second is MillisPerSec        *)
(* milliseconds long: 1000 in the program, shortened here so that a        *)
(* countdown of a whole time control reaches zero within the bounds.  The  *)
(* countdown step stays TIMER_TICK = 10 ms, so remaining times that are no *)
(* multiple of the step (and the saturation of the last step) occur.       *)
(***************************************************************************)
EXTENDS Integers, Sequences, FiniteSets, TLC

(* ------------------------------ bounds -------------------------------- *)
\* length of one second in ms (1000 in the program)
MillisPerSec == 1
\* hit() calls made on the clock of clock.rs between two set() calls
MaxHits == 3
\* tick_timer() calls made on the clock of clock.rs between two set() calls
MaxTicks == 7
\* AppEvent::HitClock events posted to the controller's queue
MaxHitClock == 2
\* events waiting in the channel at one time
MaxQueue == 2
\* Event::TimerTick events the event task pushes
MaxTimerTicks == 6
\* tick_timer() and hit() calls made between a pause() and the next pause()
MaxBetween == 2

(* --------------------------- event.rs --------------------------------- *)
TIMER_TICK == 10

from_secs(s) == s * MillisPerSec
from_millis(ms) == ms
ZERO == from_millis(0)

\* Duration::saturating_sub (variant: a subtraction that does not saturate)
saturating_sub_wrapping(a, b) == a - b
saturating_sub(a, b) == IF a >= b THEN a - b ELSE ZERO

(* ---------------------------- tabs.rs --------------------------------- *)
TimeCtrl == {"Tab1", "Tab2", "Tab3", "Tab4"}

\* TimeCtrl as usize, and strum's from_repr ("None" outside the enum)
repr(t) == CASE t = "Tab1" -> 0 [] t = "Tab2" -> 1 [] t = "Tab3" -> 2 [] t = "Tab4" -> 3
from_repr(i) ==
    CASE i = 0 -> "Tab1" [] i = 1 -> "Tab2" [] i = 2 -> "Tab3" [] i = 3 -> "Tab4"
      [] OTHER -> "None"
unwrap_or(o, d) == IF o = "None" THEN d ELSE o

\* usize::saturating_sub(1) and usize::saturating_add(1), far from usize::MAX
usize_saturating_sub(a, b) == IF a >= b THEN a - b ELSE 0
usize_saturating_add(a, b) == a + b

previous(t) == unwrap_or(from_repr(usize_saturating_sub(repr(t), 1)), t)
\* (variant: the selection wraps around from the last entry to the first)
next_cyclic(t) == IF t = "Tab4" THEN "Tab1" ELSE unwrap_or(from_repr(repr(t) + 1), t)
next(t) == unwrap_or(from_repr(usize_saturating_add(repr(t), 1)), t)

\* TimeCtrl::to_duration: <<base, increment>>
to_duration(t) ==
    CASE t = "Tab1" -> <<from_secs(180), from_secs(2)>>
      [] t = "Tab2" -> <<from_secs(60), from_secs(0)>>
      [] t = "Tab3" -> <<from_secs(300), from_secs(2)>>
      [] t = "Tab4" -> <<from_secs(600), from_secs(0)>>

(* ---------------------------- clock.rs -------------------------------- *)
Player == {"Player1", "Player2"}
\* ClockState: NotStarted, Pause, Player(p); Player(p) is written p
ClockState == {"NotStarted", "Pause"} \cup Player

\* impl Default for Clock
Clock_default ==
    [ increment |-> from_secs(1),
      player1 |-> from_secs(1),
      player2 |-> from_secs(1),
      state |-> "NotStarted",
      resume_player |-> "Player1",
      time_ctrl |-> "Tab1",
      first_to_move |-> "Player1" ]

\* Clock::set (variant: the state is not reset)
set_keep_state(c, ctrl) ==
    [c EXCEPT !.time_ctrl = ctrl,
              !.player1 = to_duration(ctrl)[1],
              !.player2 = to_duration(ctrl)[1],
              !.increment = to_duration(ctrl)[2]]
set(c, ctrl) ==
    [c EXCEPT !.time_ctrl = ctrl,
              !.player1 = to_duration(ctrl)[1],
              !.player2 = to_duration(ctrl)[1],
              !.increment = to_duration(ctrl)[2],
              !.state = "NotStarted"]

\* Clock::curr_player ("None" when no player is active)
curr_player(c) == IF c.state \in Player THEN c.state ELSE "None"

\* Clock::hit (variants: Player1 always starts, as in App::hit_clock; the
\* increment goes to the player who gets the turn; a hit on a paused clock
\* resumes it)
hit_resumes_when_paused(c) ==
    CASE c.state = "NotStarted" -> [c EXCEPT !.state = c.first_to_move]
      [] c.state = "Pause" -> [c EXCEPT !.state = c.resume_player]
      [] c.state = "Player1" ->
            [c EXCEPT !.state = "Player2", !.player1 = c.player1 + c.increment]
      [] c.state = "Player2" ->
            [c EXCEPT !.state = "Player1", !.player2 = c.player2 + c.increment]
hit_always_player1(c) ==
    CASE c.state = "NotStarted" -> [c EXCEPT !.state = "Player1"]
      [] c.state = "Pause" -> c
      [] c.state = "Player1" ->
            [c EXCEPT !.state = "Player2", !.player1 = c.player1 + c.increment]
      [] c.state = "Player2" ->
            [c EXCEPT !.state = "Player1", !.player2 = c.player2 + c.increment]
hit_increment_opponent(c) ==
    CASE c.state = "NotStarted" -> [c EXCEPT !.state = c.first_to_move]
      [] c.state = "Pause" -> c
      [] c.state = "Player1" ->
            [c EXCEPT !.state = "Player2", !.player2 = c.player2 + c.increment]
      [] c.state = "Player2" ->
            [c EXCEPT !.state = "Player1", !.player1 = c.player1 + c.increment]
hit(c) ==
    CASE c.state = "NotStarted" -> [c EXCEPT !.state = c.first_to_move]
      [] c.state = "Pause" -> c
      [] c.state = "Player1" ->
            [c EXCEPT !.state = "Player2", !.player1 = c.player1 + c.increment]
      [] c.state = "Player2" ->
            [c EXCEPT !.state = "Player1", !.player2 = c.player2 + c.increment]

\* Clock::tick_timer (variant: both players are counted down)
tick_timer_both(c) ==
    CASE c.state \in {"NotStarted", "Pause"} -> c
      [] c.state \in Player ->
            [c EXCEPT !.player1 = saturating_sub(c.player1, from_millis(TIMER_TICK)),
                      !.player2 = saturating_sub(c.player2, from_millis(TIMER_TICK))]
tick_timer(c) ==
    CASE c.state \in {"NotStarted", "Pause"} -> c
      [] c.state = "Player1" ->
            [c EXCEPT !.player1 = saturating_sub(c.player1, from_millis(TIMER_TICK))]
      [] c.state = "Player2" ->
            [c EXCEPT !.player2 = saturating_sub(c.player2, from_millis(TIMER_TICK))]

\* Clock::is_time_out
is_time_out(c) == c.player1 = ZERO \/ c.player2 = ZERO

\* Clock::pause
pause(c, resume_player) ==
    IF c.state = "Pause"
    THEN [c EXCEPT !.state = c.resume_player]
    ELSE [c EXCEPT !.resume_player = resume_player, !.state = "Pause"]

\* Clock::flip_first_to_move
flip_first_to_move(c) ==
    [c EXCEPT !.first_to_move =
        IF c.first_to_move = "Player1" THEN "Player2" ELSE "Player1"]

(* ----------------------------- app.rs --------------------------------- *)
\* ClockTurn of app.rs
ClockTurn == {"NotStarted", "Player1", "Player2"}

\* impl Default for Clock (app.rs)
AppClock_default ==
    [ increment |-> from_secs(2),
      player1 |-> from_secs(40),
      player2 |-> from_secs(65),
      turn |-> "NotStarted",
      time_ctrl |-> <<from_secs(180), from_secs(2)>> ]

\* Screen
PickTimeCtrl(t) == [screen |-> "PickTimeCtrl", ctrl |-> t]
Main == [screen |-> "Main", ctrl |-> "None"]
TimeOut == [screen |-> "TimeOut", ctrl |-> "None"]

\* impl Default for App (TimeCtrl::default() is Tab1)
App_default ==
    [ screen |-> PickTimeCtrl("Tab1"),
      timeout |-> FALSE,
      clock |-> AppClock_default,
      running |-> TRUE ]

\* Event and AppEvent; a crossterm event is a key press (code, modifiers) or a
\* resize.  Every event is a record of the same shape.
Event(type, kind, code, modifiers) ==
    [type |-> type, kind |-> kind, code |-> code, modifiers |-> modifiers]
Tick == Event("Tick", "None", "None", "NONE")
TimerTick == Event("TimerTick", "None", "None", "NONE")
Key(code, modifiers) == [kind |-> "Key", code |-> code, modifiers |-> modifiers]
Resize == [kind |-> "Resize", code |-> "None", modifiers |-> "NONE"]
Crossterm(evt) == Event("Crossterm", evt.kind, evt.code, evt.modifiers)
App(app_event) == Event("App", app_event, "None", "NONE")
AppEvent == {"Timeout", "HitClock", "Quit"}
CrosstermEvent ==
    { Key("Left", "NONE"), Key("Right", "NONE"), Key("q", "NONE"),
      Key("c", "CONTROL"), Key(" ", "NONE"), Resize }
\* the keys App::handle_key_events answers by AppEvent::Quit
QuitKey == {Key("q", "NONE"), Key("Esc", "NONE"), Key("c", "CONTROL")}
\* the keys App::handle_key_events and TimeCtrl::handle_key_events name (the
\* latter in a comment: Enter), and one they do not name
KeyEvent ==
    { Key("Left", "NONE"), Key("Right", "NONE"), Key("q", "NONE"),
      Key("Esc", "NONE"), Key("c", "CONTROL"), Key("C", "CONTROL"),
      Key("c", "NONE"), Key(" ", "NONE"), Key("Enter", "NONE") }
\* what reader.next() of the crossterm EventStream yields besides Some(Ok(evt)):
\* Some(Err(e)), and None when the stream has ended
StreamErr == [kind |-> "Err", code |-> "None", modifiers |-> "NONE"]
StreamEnd == [kind |-> "End", code |-> "None", modifiers |-> "NONE"]
\* the value of the history of handled events before any event is handled
NoEvent == Event("None", "None", "None", "NONE")
\* Screen
Screen == {PickTimeCtrl(t) : t \in TimeCtrl} \cup {Main, TimeOut}

\* App::quit
quit(a) == [a EXCEPT !.running = FALSE]

\* App::hit_clock
hit_clock(a) ==
    CASE a.clock.turn = "NotStarted" -> [a EXCEPT !.clock.turn = "Player1"]
      [] a.clock.turn = "Player1" ->
            [a EXCEPT !.clock.turn = "Player2",
                      !.clock.player1 = a.clock.player1 + a.clock.increment]
      [] a.clock.turn = "Player2" ->
            [a EXCEPT !.clock.turn = "Player1",
                      !.clock.player2 = a.clock.player2 + a.clock.increment]

\* App::tick (variant: the render tick counts the clock down as well)
tick_counts_down(a) ==
    CASE a.clock.turn = "NotStarted" -> a
      [] a.clock.turn = "Player1" ->
            [a EXCEPT !.clock.player1 = IF a.clock.player1 >= 1 THEN a.clock.player1 - 1 ELSE 0]
      [] a.clock.turn = "Player2" ->
            [a EXCEPT !.clock.player2 = IF a.clock.player2 >= 1 THEN a.clock.player2 - 1 ELSE 0]
tick(a) == a

\* the test App::tick_timer starts with
app_is_time_out(a) == a.clock.player1 = ZERO \/ a.clock.player2 = ZERO

\* App::tick_timer: <<the app afterwards, the app events it sends>>
app_tick_timer(a) ==
    IF app_is_time_out(a)
    THEN <<a, <<"Timeout">> >>
    ELSE CASE a.clock.turn = "NotStarted" -> <<a, <<>> >>
           [] a.clock.turn = "Player1" ->
                << [a EXCEPT !.clock.player1 =
                        saturating_sub(a.clock.player1, from_millis(TIMER_TICK))], <<>> >>
           [] a.clock.turn = "Player2" ->
                << [a EXCEPT !.clock.player2 =
                        saturating_sub(a.clock.player2, from_millis(TIMER_TICK))], <<>> >>

\* TimeCtrl::handle_key_events
tab_handle_key_events(t, key) ==
    CASE key.code = "Right" -> next(t)
      [] key.code = "Left" -> previous(t)
      [] OTHER -> t

\* App::handle_key_events: <<the app afterwards, the app events it sends>>,
\* or "panic" where the code runs into todo!()
\* (variant: the CONTROL modifier is not recognised, Ctrl-C is a plain c)
handle_key_events_without_ctrl_c(a, key) ==
    IF a.screen.screen # "PickTimeCtrl"
    THEN "panic"
    ELSE LET a2 == [a EXCEPT !.screen = PickTimeCtrl(tab_handle_key_events(a.screen.ctrl, key))]
         IN  CASE key.code \in {"Esc", "q"} -> <<a2, <<"Quit">> >>
               [] OTHER -> <<a2, <<>> >>
handle_key_events(a, key) ==
    IF a.screen.screen # "PickTimeCtrl"
    THEN "panic"
    ELSE LET a2 == [a EXCEPT !.screen = PickTimeCtrl(tab_handle_key_events(a.screen.ctrl, key))]
         IN  CASE key.code \in {"Esc", "q"} -> <<a2, <<"Quit">> >>
               [] key.code \in {"c", "C"} /\ key.modifiers = "CONTROL" -> <<a2, <<"Quit">> >>
               [] OTHER -> <<a2, <<>> >>

\* App::ui / App::pick_time_ctrl: TRUE where the draw runs into unreachable!()
ui_panics(a) == a.screen.screen # "PickTimeCtrl"

(* --------------------------- event.rs: channel ------------------------ *)
\* The unbounded mpsc channel holds messages [no, ev]: ev is the Event, no the
\* number (modulo Wrap) the message got when it was pushed; the messages are
\* numbered in the behaviours that record the history of the channel
\* (numbered = TRUE) and carry 0 in the others.
Wrap == MaxQueue + 2

\* UnboundedSender::send, as EventTask::send and EventHandler::send use it
\* (variant: an event is dropped while another one waits)
channel_send_drop_when_busy(q, ev, no) ==
    IF q = <<>> THEN Append(q, [no |-> no, ev |-> ev]) ELSE q
channel_send(q, ev, no) == Append(q, [no |-> no, ev |-> ev])

\* UnboundedReceiver::recv on a non-empty channel: <<the message, the rest>>
channel_recv(q) == <<Head(q), Tail(q)>>

\* what UnboundedReceiver::recv does on a channel with n live senders: it
\* yields a message ("Some"), yields None when the channel is empty and every
\* sender is dropped, and waits otherwise ("Pending")
recv_outcome(q, n) ==
    IF q # <<>> THEN "Some" ELSE IF n = 0 THEN "None" ELSE "Pending"

\* EventHandler::next: recv().await.ok_or(io::Error) ("Ok": an event is
\* returned, "Err": the error is returned, "Pending": the call waits)
handler_next(q, n) ==
    CASE recv_outcome(q, n) = "Some" -> "Ok"
      [] recv_outcome(q, n) = "None" -> "Err"
      [] OTHER -> "Pending"

(* ------------------------------ state --------------------------------- *)
VARIABLES
    clock,      \* the Clock of clock.rs
    log,        \* history of clock: the last operation and the clock before it
    app,        \* the App of app.rs: screen, timeout, running, clock
    queue,      \* the messages in the channel
    task,       \* EventTask::run: "run" or "done"
    pc,         \* App::run: "loop", "Ok" (returned) or "panic"
    posted,     \* number of AppEvent::HitClock posted
    timer_ticks, \* number of Event::TimerTick pushed
    terminal,   \* what the crossterm EventStream can yield
    reader,     \* history of the EventStream: "ok", "err" (it has yielded an
                \* error), "end" (it has ended)
    numbered,   \* history: whether the messages are numbered
    sent_no,    \* history: number of the last message pushed
    recv_no,    \* history: number of the last message EventHandler::next returned
    recorded,   \* history: whether the last event handled is recorded
    recv_ev     \* history: the last event handled

vars == <<clock, log, app, queue, task, pc, posted, timer_ticks, terminal, reader, numbered, sent_no, recv_no, recorded, recv_ev>>
clock_vars == <<clock, log>>
app_vars == <<app, queue, task, pc, posted, timer_ticks, terminal, reader, numbered, sent_no, recv_no, recorded, recv_ev>>

\* the live senders of the channel: the one the EventHandler keeps (dropped
\* with the App when App::run ends) and the clone the EventTask holds
senders == (IF pc = "loop" THEN 1 ELSE 0) + (IF task = "run" THEN 1 ELSE 0)

Log(op, arg, before, hits, paused, flipped, ticks) ==
    [op |-> op, arg |-> arg, before |-> before, hits |-> hits, paused |-> paused,
     flipped |-> flipped, ticks |-> ticks]

Start ==
    /\ clock = Clock_default
    /\ log = Log("default", "None", Clock_default, 0, FALSE, FALSE, 0)
    /\ app = App_default
    /\ queue = <<>>
    /\ task = "run"
    /\ pc = "loop"
    /\ posted = 0
    /\ timer_ticks = 0
    /\ reader = "ok"
    /\ sent_no = 0
    /\ recv_no = 0
    /\ recv_ev = NoEvent

Init == Start /\ terminal = CrosstermEvent /\ numbered = FALSE /\ recorded = FALSE

\* the behaviours that record the history of the channel: the terminal
\* produces the events that leave the selected tab alone
InitNumbered ==
    /\ Start
    /\ terminal = {Key("q", "NONE"), Key(" ", "NONE"), Resize}
    /\ numbered = TRUE
    /\ recorded = FALSE

\* the behaviours that record the last event handled, with the same terminal
InitRecorded ==
    /\ Start
    /\ terminal = {Key("q", "NONE"), Key(" ", "NONE"), Resize}
    /\ numbered = FALSE
    /\ recorded = TRUE

\* the number of the message pushed after the message numbered no
succ_no(no) == IF numbered THEN (no + 1) % Wrap ELSE 0

(* ------------------- operations on the Clock of clock.rs -------------- *)
\* log.op, log.arg, log.before: the last operation, its argument and the clock
\* before it; log.hits, log.ticks: the hit() and tick_timer() calls since the
\* clock was constructed or set(); log.paused, log.flipped: a pause(), a
\* flip_first_to_move() after the first hit, happened since.
Set(ctrl) ==
    /\ clock' = set(clock, ctrl)
    /\ log' = Log("set", ctrl, clock, 0, FALSE, FALSE, 0)
    /\ UNCHANGED app_vars

Hit ==
    /\ log.hits < MaxHits
    /\ clock' = hit(clock)
    /\ log' = [log EXCEPT !.op = "hit", !.arg = "None", !.before = clock,
                          !.hits = log.hits + 1]
    /\ UNCHANGED app_vars

TickTimer ==
    /\ log.ticks < MaxTicks
    /\ clock' = tick_timer(clock)
    /\ log' = [log EXCEPT !.op = "tick_timer", !.arg = "None", !.before = clock,
                          !.ticks = log.ticks + 1]
    /\ UNCHANGED app_vars

Pause(resume_player) ==
    /\ clock' = pause(clock, resume_player)
    /\ log' = [log EXCEPT !.op = "pause", !.arg = resume_player, !.before = clock,
                          !.paused = TRUE]
    /\ UNCHANGED app_vars

FlipFirstToMove ==
    /\ clock' = flip_first_to_move(clock)
    /\ log' = [log EXCEPT !.op = "flip_first_to_move", !.arg = "None", !.before = clock,
                          !.flipped = log.flipped \/ log.hits > 0]
    /\ UNCHANGED app_vars

NextClock ==
    \/ \E ctrl \in TimeCtrl : Set(ctrl)
    \/ Hit
    \/ TickTimer
    \/ \E resume_player \in Player : Pause(resume_player)
    \/ FlipFirstToMove

SpecClock == Init /\ [][NextClock]_vars

(* ------------------------ EventTask::run (event.rs) ------------------- *)
\* One firing of the select! of EventTask::run pushes one event.  A send to a
\* channel whose receiver is gone fails and is ignored, so only the sends to
\* a live receiver (pc = "loop") change the state.
Push(ev) ==
    /\ queue' = channel_send(queue, ev, succ_no(sent_no))
    /\ sent_no' = succ_no(sent_no)

TaskSend(ev) ==
    /\ task = "run"
    /\ pc = "loop"
    /\ Len(queue) < MaxQueue
    /\ Push(ev)
    /\ UNCHANGED <<app, task, pc, posted, terminal, numbered, recv_no, recorded, recv_ev, clock_vars>>

\* _ = tick_delay => self.send(Event::Tick)
\* (variant: the render tick is sent only behind an event that still waits)
TaskTick_behind_waiting_event ==
    /\ queue # <<>>
    /\ TaskSend(Tick)
    /\ UNCHANGED <<timer_ticks, reader>>
TaskTick ==
    /\ TaskSend(Tick)
    /\ UNCHANGED <<timer_ticks, reader>>

\* _ = clock_tick_delay => self.send(Event::TimerTick)
TaskTimerTick ==
    /\ timer_ticks < MaxTimerTicks
    /\ TaskSend(TimerTick)
    /\ timer_ticks' = timer_ticks + 1
    /\ UNCHANGED reader

\* Some(Ok(evt)) = crossterm_event => self.send(Event::Crossterm(evt)): the
\* branch is disabled for what does not match the pattern, Some(Err(e)) and
\* None, nothing is sent and the loop goes on; an ended stream yields nothing
\* more
TaskCrossterm ==
    /\ reader # "end"
    /\ \E evt \in terminal :
          IF evt.kind \in {"Err", "End"}
          THEN /\ task = "run"
               /\ pc = "loop"
               /\ reader' = IF evt.kind = "Err" THEN "err" ELSE "end"
               /\ UNCHANGED <<app, queue, task, pc, posted, terminal, numbered, sent_no,
                              recv_no, recorded, recv_ev, clock_vars>>
          ELSE /\ TaskSend(Crossterm(evt))
               /\ UNCHANGED reader
    /\ UNCHANGED timer_ticks

\* _ = self.sender.closed() => break
\* (variant: the loop is also left while the receiver is alive)
TaskBreak_while_receiving ==
    /\ task = "run"
    /\ task' = "done"
    /\ UNCHANGED <<app, queue, pc, posted, timer_ticks, terminal, reader, numbered, sent_no,
                   recv_no, recorded, recv_ev, clock_vars>>
TaskBreak ==
    /\ task = "run"
    /\ pc # "loop"
    /\ task' = "done"
    /\ UNCHANGED <<app, queue, pc, posted, timer_ticks, terminal, reader, numbered, sent_no,
                   recv_no, recorded, recv_ev, clock_vars>>

\* EventHandler::send(AppEvent::HitClock), called on the pub events field: no
\* handler of app.rs posts this event
PostHitClock ==
    /\ pc = "loop"
    /\ posted < MaxHitClock
    /\ Len(queue) < MaxQueue
    /\ Push(App("HitClock"))
    /\ posted' = posted + 1
    /\ UNCHANGED <<app, task, pc, timer_ticks, terminal, reader, numbered, recv_no,
                   recorded, recv_ev, clock_vars>>

(* ----------------------------- App::run ------------------------------- *)
\* One iteration of the loop of App::run: draw, take the next event, handle it
\* (out: <<the app afterwards, the app events the handler sends>> or "panic").
RECURSIVE send_all(_, _, _)
send_all(q, app_events, no) ==
    IF app_events = <<>> THEN q
    ELSE send_all(channel_send(q, App(Head(app_events)), succ_no(no)),
                  Tail(app_events), succ_no(no))

Iterate(m, rest, out) ==
    /\ recv_no' = m.no
    /\ recv_ev' = IF recorded THEN m.ev ELSE recv_ev
    /\ IF ui_panics(app) \/ out = "panic"
       THEN /\ pc' = "panic"
            /\ queue' = rest
            /\ UNCHANGED <<app, sent_no>>
       ELSE /\ app' = out[1]
            /\ queue' = send_all(rest, out[2], sent_no)
            /\ sent_no' = IF out[2] = <<>> THEN sent_no ELSE succ_no(sent_no)
            /\ UNCHANGED pc

\* (variant of Run: the test of running is left out)
Run_without_running_test(type, kind) ==
    /\ pc = "loop"
    /\ handler_next(queue, senders) = "Ok"
    /\ channel_recv(queue)[1].ev.type = type
    /\ channel_recv(queue)[1].ev.kind = kind

Run(type, kind) ==
    /\ pc = "loop"
    /\ app.running
    /\ handler_next(queue, senders) = "Ok"
    /\ channel_recv(queue)[1].ev.type = type
    /\ channel_recv(queue)[1].ev.kind = kind

\* Event::Tick => self.tick()
RunTick ==
    /\ Run("Tick", "None")
    /\ Iterate(channel_recv(queue)[1], channel_recv(queue)[2], <<tick(app), <<>> >>)
    /\ UNCHANGED <<task, posted, timer_ticks, terminal, reader, numbered, recorded, clock_vars>>

\* Event::TimerTick => self.tick_timer()
RunTimerTick ==
    /\ Run("TimerTick", "None")
    /\ Iterate(channel_recv(queue)[1], channel_recv(queue)[2], app_tick_timer(app))
    /\ UNCHANGED <<task, posted, timer_ticks, terminal, reader, numbered, recorded, clock_vars>>

\* Event::Crossterm(Event::Key(key_event)) => self.handle_key_events(key_event)?
RunKey ==
    /\ Run("Crossterm", "Key")
    /\ Iterate(channel_recv(queue)[1], channel_recv(queue)[2],
               handle_key_events(app, channel_recv(queue)[1].ev))
    /\ UNCHANGED <<task, posted, timer_ticks, terminal, reader, numbered, recorded, clock_vars>>

\* Event::Crossterm(_) => {}
RunResize ==
    /\ Run("Crossterm", "Resize")
    /\ Iterate(channel_recv(queue)[1], channel_recv(queue)[2], <<app, <<>> >>)
    /\ UNCHANGED <<task, posted, timer_ticks, terminal, reader, numbered, recorded, clock_vars>>

\* AppEvent::Timeout => self.quit()
\* (variant: the screen becomes TimeOut and the loop goes on)
RunTimeout_shows_TimeOut ==
    /\ Run("App", "Timeout")
    /\ Iterate(channel_recv(queue)[1], channel_recv(queue)[2],
               <<[app EXCEPT !.screen = TimeOut], <<>> >>)
    /\ UNCHANGED <<task, posted, timer_ticks, terminal, reader, numbered, recorded, clock_vars>>
RunTimeout ==
    /\ Run("App", "Timeout")
    /\ Iterate(channel_recv(queue)[1], channel_recv(queue)[2], <<quit(app), <<>> >>)
    /\ UNCHANGED <<task, posted, timer_ticks, terminal, reader, numbered, recorded, clock_vars>>

\* AppEvent::HitClock => self.hit_clock()
RunHitClock ==
    /\ Run("App", "HitClock")
    /\ Iterate(channel_recv(queue)[1], channel_recv(queue)[2], <<hit_clock(app), <<>> >>)
    /\ UNCHANGED <<task, posted, timer_ticks, terminal, reader, numbered, recorded, clock_vars>>

\* AppEvent::Quit => self.quit()
RunQuit ==
    /\ Run("App", "Quit")
    /\ Iterate(channel_recv(queue)[1], channel_recv(queue)[2], <<quit(app), <<>> >>)
    /\ UNCHANGED <<task, posted, timer_ticks, terminal, reader, numbered, recorded, clock_vars>>

\* while self.running ends; Ok(()) is returned and the App, with its
\* EventHandler, is dropped
RunReturn ==
    /\ pc = "loop"
    /\ ~app.running
    /\ pc' = "Ok"
    /\ UNCHANGED <<app, queue, task, posted, timer_ticks, terminal, reader, numbered, sent_no,
                   recv_no, recorded, recv_ev, clock_vars>>

Next ==
    \/ TaskTick
    \/ TaskTimerTick
    \/ TaskCrossterm
    \/ TaskBreak
    \/ PostHitClock
    \/ RunTick
    \/ RunTimerTick
    \/ RunKey
    \/ RunResize
    \/ RunTimeout
    \/ RunHitClock
    \/ RunQuit
    \/ RunReturn

Spec == Init /\ [][Next]_vars

\* the same behaviours, with the history of the channel recorded
SpecNumbered == InitNumbered /\ [][Next]_vars

\* the same behaviours, with the last event handled recorded
SpecRecorded == InitRecorded /\ [][Next]_vars

\* the behaviours in which the terminal produces the keys that move the
\* selection, a quit key and resizes
InitArrows ==
    /\ Start
    /\ terminal = {Key("Left", "NONE"), Key("Right", "NONE"), Key("q", "NONE"), Resize}
    /\ numbered = FALSE
    /\ recorded = FALSE

SpecArrows == InitArrows /\ [][Next]_vars

(* ------------------------ the program of main.rs ----------------------- *)
\* main.rs runs App::new().run(terminal) and nothing else: no AppEvent::HitClock
\* is posted, so the clock is never started and neither HitClock nor Timeout
\* is ever received.  The terminal produces the keys that move the selection,
\* quit and confirm, and resizes, and its stream may yield an error or end.
InitMain ==
    /\ Start
    /\ terminal = { Key("Left", "NONE"), Key("Right", "NONE"), Key("q", "NONE"),
                    Key("Enter", "NONE"), Resize, StreamErr, StreamEnd }
    /\ numbered = FALSE
    /\ recorded = FALSE

NextMain ==
    \/ TaskTick
    \/ TaskTimerTick
    \/ TaskCrossterm
    \/ TaskBreak
    \/ RunTick
    \/ RunTimerTick
    \/ RunKey
    \/ RunResize
    \/ RunQuit
    \/ RunReturn

\* tokio::select! polls its branches in random order, so a branch that stays
\* ready is taken: the two intervals become ready again and again, and
\* sender.closed() stays ready once the receiver is dropped.
SpecMain ==
    /\ InitMain
    /\ [][NextMain]_vars
    /\ WF_vars(TaskTick)
    /\ WF_vars(TaskTimerTick)
    /\ WF_vars(TaskBreak)

\* The same program with the three quit keys on the keyboard and a stream
\* that does not fail.  App::run is a loop of one task: while an event waits
\* in the channel, or running is false, its next step is taken.
InitQuit ==
    /\ Start
    /\ terminal = QuitKey \cup {Key("Right", "NONE"), Resize}
    /\ numbered = FALSE
    /\ recorded = FALSE

Consume ==
    \/ RunTick
    \/ RunTimerTick
    \/ RunKey
    \/ RunResize
    \/ RunQuit
    \/ RunReturn

SpecQuit ==
    /\ InitQuit
    /\ [][NextMain]_vars
    /\ WF_vars(Consume)

(* ------------------- the task ends while App::run runs ------------------ *)
\* tokio::spawn(async { actor.run().await }): the JoinHandle is dropped, so a
\* task that ends by a panic goes unnoticed; its sender is dropped with it.
\* EventTask::run itself has no such exit (TaskBreak is its only one).
TaskEnds ==
    /\ task = "run"
    /\ pc = "loop"
    /\ task' = "done"
    /\ UNCHANGED <<app, queue, pc, posted, timer_ticks, terminal, reader, numbered, sent_no,
                   recv_no, recorded, recv_ev, clock_vars>>

NextTaskEnds ==
    \/ NextMain
    \/ TaskEnds

SpecTaskEnds == InitMain /\ [][NextTaskEnds]_vars

(* ------------------------ App::handle_key_events ------------------------ *)
\* The pub fn App::handle_key_events as a function of the App (its pub screen
\* field takes every value of Screen, its clock every turn) and the key: each
\* step is one call.
InitKeys ==
    /\ clock = Clock_default
    /\ log = Log("default", "None", Clock_default, 0, FALSE, FALSE, 0)
    /\ \E s \in Screen, turn \in ClockTurn :
          app = [App_default EXCEPT !.screen = s, !.clock.turn = turn]
    /\ queue = <<>>
    /\ task = "run"
    /\ pc = "loop"
    /\ posted = 0
    /\ timer_ticks = 0
    /\ terminal = KeyEvent
    /\ reader = "ok"
    /\ numbered = FALSE
    /\ sent_no = 0
    /\ recv_no = 0
    /\ recorded = TRUE
    /\ recv_ev = NoEvent

\* self.handle_key_events(key_event)?: the call ends in a panic (todo!()) or
\* returns Ok(()) after sending its app events
HandleKey(key) ==
    /\ pc = "loop"
    /\ Len(queue) < MaxQueue
    /\ recv_ev' = Crossterm(key)
    /\ IF handle_key_events(app, key) = "panic"
       THEN /\ pc' = "panic"
            /\ UNCHANGED <<app, queue, sent_no>>
       ELSE /\ app' = handle_key_events(app, key)[1]
            /\ queue' = send_all(queue, handle_key_events(app, key)[2], sent_no)
            /\ sent_no' = IF handle_key_events(app, key)[2] = <<>>
                           THEN sent_no ELSE succ_no(sent_no)
            /\ UNCHANGED pc
    /\ UNCHANGED <<task, posted, timer_ticks, terminal, reader, numbered, recv_no,
                   recorded, clock_vars>>

NextKeys == \E key \in terminal : HandleKey(key)

SpecKeys == InitKeys /\ [][NextKeys]_vars

(* ------------------------------ claims -------------------------------- *)
remaining(c, p) == IF p = "Player1" THEN c.player1 ELSE c.player2
other(p) == IF p = "Player1" THEN "Player2" ELSE "Player1"
base(ctrl) == to_duration(ctrl)[1]

\* C1 (SpecClock): a tick_timer() or hit() made on a clock that is timed out
\* (a remaining time is zero) leaves player1, player2 and the state unchanged.
C1_TimeoutFreezesState ==
    (log.op \in {"tick_timer", "hit"} /\ is_time_out(log.before))
        => /\ clock.player1 = log.before.player1
           /\ clock.player2 = log.before.player2
           /\ clock.state = log.before.state

\* C2 (Spec): the handling of the TimerTick that brings a remaining time of the
\* App's clock to zero leaves AppEvent::Timeout in the queue, and no event
\* handled after the time reached zero changes the clock.
C2_TimeoutPostedAndNoHitAfter ==
    [][ /\ (RunTimerTick /\ ~app_is_time_out(app) /\ app_is_time_out(app'))
            => \E i \in 1..Len(queue') : queue'[i].ev = App("Timeout")
        /\ app_is_time_out(app) => app'.clock = app.clock ]_vars

\* C3 (SpecClock): both remaining times are >= 0 in every reachable state, and
\* a tick_timer() that finds less than TIMER_TICK (zero included) on the active
\* player's clock leaves exactly zero there.
C3_Saturation ==
    /\ clock.player1 >= 0
    /\ clock.player2 >= 0
    /\ (log.op = "tick_timer" /\ log.before.state \in Player
            /\ remaining(log.before, log.before.state) < from_millis(TIMER_TICK))
        => remaining(clock, log.before.state) = ZERO

C3_Witness ==
    /\ log.op = "tick_timer"
    /\ log.before.state = "Player1"
    /\ log.before.player1 > ZERO
    /\ log.before.player1 < from_millis(TIMER_TICK)
    /\ clock.player1 = ZERO

\* C4 (SpecClock): after n >= 1 hit() calls from NotStarted, with no pause and
\* no flip of first_to_move in between, the active player is first_to_move
\* for odd n and the other player for even n; with a zero increment and no
\* tick both remaining times still are the base of the time control.
C4_TurnAlternation ==
    (log.hits >= 1 /\ ~log.paused /\ ~log.flipped)
        => /\ clock.state = IF log.hits % 2 = 1 THEN clock.first_to_move
                            ELSE other(clock.first_to_move)
           /\ (clock.increment = ZERO /\ log.ticks = 0)
                => /\ clock.player1 = base(clock.time_ctrl)
                   /\ clock.player2 = base(clock.time_ctrl)

C4_Witness ==
    /\ log.hits = 3
    /\ ~log.paused
    /\ ~log.flipped
    /\ log.ticks = 0
    /\ clock.increment = ZERO
    /\ clock.first_to_move = "Player2"
    /\ clock.state = "Player2"
    /\ clock.player1 = base(clock.time_ctrl)

\* C5 (SpecClock): a hit() made while a player is active adds exactly the
\* increment to that player's remaining time and leaves the other player's
\* unchanged; a hit() made in NotStarted changes neither.
C5_IncrementCorrectness ==
    log.op = "hit"
        => /\ log.before.state = "Player1"
                => /\ clock.player1 = log.before.player1 + log.before.increment
                   /\ clock.player2 = log.before.player2
           /\ log.before.state = "Player2"
                => /\ clock.player2 = log.before.player2 + log.before.increment
                   /\ clock.player1 = log.before.player1
           /\ log.before.state = "NotStarted"
                => /\ clock.player1 = log.before.player1
                   /\ clock.player2 = log.before.player2

C5_Witness ==
    /\ log.op = "hit"
    /\ log.before.state = "Player1"
    /\ log.before.increment > ZERO
    /\ clock.player1 = log.before.player1 + log.before.increment
    /\ clock.state = "Player2"

\* C6 (SpecClock): on a clock whose state is Player(p), pause() followed by
\* pause() gives state Player(p) again and leaves both remaining times
\* unchanged, whatever the calls are given as resume_player.
C6_PauseRoundTrip ==
    clock.state \in Player
        => \A r1 \in Player, r2 \in Player :
              /\ pause(pause(clock, r1), r2).state = clock.state
              /\ pause(pause(clock, r1), r2).player1 = clock.player1
              /\ pause(pause(clock, r1), r2).player2 = clock.player2

\* C7 (SpecClock): tick_timer() changes neither the state, the increment nor
\* the remaining time of a player who is not active; the active player's
\* remaining time does not grow, and nothing changes in NotStarted and Pause.
C7_TickFrame ==
    log.op = "tick_timer"
        => /\ clock.state = log.before.state
           /\ clock.increment = log.before.increment
           /\ \A p \in Player :
                 IF log.before.state = p
                 THEN remaining(clock, p) <= remaining(log.before, p)
                 ELSE remaining(clock, p) = remaining(log.before, p)

C7_Witness ==
    /\ log.op = "tick_timer"
    /\ log.before.state = "Player2"
    /\ clock.player2 < log.before.player2
    /\ clock.player1 = log.before.player1

\* C8 (SpecClock): after set(ctrl), from any state, both remaining times are
\* the base of ctrl, the increment is the increment of ctrl, the state is
\* NotStarted and the clock is not timed out.
C8_Configure ==
    log.op = "set"
        => /\ clock.player1 = to_duration(log.arg)[1]
           /\ clock.player2 = to_duration(log.arg)[1]
           /\ clock.increment = to_duration(log.arg)[2]
           /\ clock.state = "NotStarted"
           /\ ~is_time_out(clock)

C8_Witness ==
    /\ log.op = "set"
    /\ log.arg = "Tab4"
    /\ is_time_out(log.before)
    /\ log.before.state \in Player
    /\ clock.state = "NotStarted"

\* C9 (SpecNumbered): the messages waiting in the channel are, in order, the
\* ones pushed after the last message next() returned, up to the last message
\* pushed: none is dropped, duplicated or overtaken.
C9_FifoWithoutLoss ==
    /\ \A i \in 1..Len(queue) : queue[i].no = (recv_no + i) % Wrap
    /\ sent_no = (recv_no + Len(queue)) % Wrap

C9_Witness ==
    /\ numbered
    /\ recv_no = 2
    /\ Len(queue) = 2
    /\ queue[1].ev = App("Quit")
    /\ queue[2].ev = TimerTick

\* C10 (Spec): handling AppEvent::Timeout sets the screen to TimeOut and leaves
\* the loop of App::run running.
C10_TimeoutGoesToTimeOutScreen ==
    [][ RunTimeout => (app'.screen = TimeOut /\ app'.running /\ pc' = "loop") ]_vars

\* C19 (SpecClock): a hit() made while the clock is paused changes nothing:
\* the state stays Pause, and both remaining times, the increment and the
\* resume player are the ones before the call.
C19_HitWhilePausedIsNoOp ==
    (log.op = "hit" /\ log.before.state = "Pause")
        => /\ clock.state = "Pause"
           /\ clock.player1 = log.before.player1
           /\ clock.player2 = log.before.player2
           /\ clock.increment = log.before.increment
           /\ clock.resume_player = log.before.resume_player

C19_Witness ==
    /\ log.op = "hit"
    /\ log.before.state = "Pause"
    /\ log.before.resume_player = "Player2"
    /\ log.before.player2 < base(log.before.time_ctrl)
    /\ clock.state = "Pause"

\* C20 (SpecClock): since the clock was constructed or set(), a player is
\* active only after a hit(), and the hit() that finds the clock in NotStarted
\* makes first_to_move the active player; so no sequence of pause() calls
\* takes the clock from NotStarted to an active player.
C20_StartOnlyThroughHit ==
    /\ clock.state \in Player => log.hits >= 1
    /\ (log.op = "hit" /\ log.before.state = "NotStarted")
          => clock.state = clock.first_to_move

\* C12 (SpecRecorded): handling a render Tick leaves the App's clock (both
\* remaining times, turn, increment, time control), the screen and running
\* unchanged, and the loop of App::run running.
C12_RenderTickFrame ==
    [][ RunTick => (app'.clock = app.clock /\ app'.screen = app.screen
                    /\ app'.running = app.running /\ pc' = pc) ]_vars

C12_Witness ==
    /\ recv_ev = Tick
    /\ pc = "loop"
    /\ app.clock.turn = "Player2"
    /\ app.clock.player1 < AppClock_default.player1
    /\ app.clock.player2 > ZERO

\* C13 (SpecMain): EventTask::run is left only after App::run has ended and
\* dropped the receiver, and once the receiver is dropped the task ends.
C13_ProducerShutdown ==
    /\ [](task = "done" => pc # "loop")
    /\ (pc # "loop") ~> (task = "done")

C13_Witness ==
    /\ pc = "Ok"
    /\ task = "done"
    /\ ~app.running

\* C15 (SpecMain): once the crossterm stream has yielded an error or has
\* ended, App::run does not return Ok(()) and the task does not read the
\* stream again.
C15_InputFailureIsFatal ==
    /\ [](reader # "ok" => pc # "Ok")
    /\ [][ reader # "ok" => ~TaskCrossterm ]_vars

\* C16 (SpecMain): while the task is alive, a call of EventHandler::next that
\* waits on an empty channel gets an event, also when the terminal produces
\* nothing more.
C16_NextReturns ==
    (pc = "loop" /\ app.running /\ task = "run"
        /\ handler_next(queue, senders) = "Pending")
        ~> (handler_next(queue, senders) = "Ok")

C16_Witness ==
    /\ pc = "loop"
    /\ app.running
    /\ task = "run"
    /\ reader = "end"
    /\ Len(queue) = 1
    /\ queue[1].ev = Tick
    /\ handler_next(queue, senders) = "Ok"

\* C17 (SpecMain): handling the Enter key in the PickTimeCtrl screen sets the
\* screen to Main and the App's clock to the selected time control: both
\* remaining times its base, the increment its increment, the turn NotStarted.
C17_ConfirmSelection ==
    [][ (RunKey /\ channel_recv(queue)[1].ev = Crossterm(Key("Enter", "NONE"))
            /\ app.screen.screen = "PickTimeCtrl")
        => /\ app'.screen = Main
           /\ app'.clock.player1 = to_duration(app.screen.ctrl)[1]
           /\ app'.clock.player2 = to_duration(app.screen.ctrl)[1]
           /\ app'.clock.increment = to_duration(app.screen.ctrl)[2]
           /\ app'.clock.turn = "NotStarted" ]_vars

C14_NextFailsWithoutProducer ==
    (pc = "loop" /\ app.running /\ task = "done" /\ queue = <<>>)
        => handler_next(queue, senders) = "Err"

\* C18 (SpecKeys): handling the space bar in the Main screen returns normally
\* and applies one hit to the App's clock, at once or by one
\* AppEvent::HitClock left in the channel.
C18_SpaceBarHits ==
    [][ (HandleKey(Key(" ", "NONE")) /\ app.screen = Main)
        => /\ pc' = "loop"
           /\ \/ app' = hit_clock(app) /\ queue' = queue
              \/ app' = app
                   /\ queue' = channel_send(queue, App("HitClock"), succ_no(sent_no)) ]_vars

\* the catalog order of the time controls, and the place of an entry in it
Catalog == <<"Tab1", "Tab2", "Tab3", "Tab4">>
place(t) == CHOOSE i \in 1..Len(Catalog) : Catalog[i] = t

\* C21 (SpecMain): the selection that any sequence of Right and Left keys
\* (next() and previous() calls) leaves is one of the four entries; from it
\* next() goes one entry forward and previous() one entry back in catalog
\* order, except that next() on the last entry and previous() on the first
\* one leave it unchanged.
C21_NavigationClamps ==
    /\ app.screen.ctrl \in TimeCtrl
    /\ next(app.screen.ctrl) =
          IF place(app.screen.ctrl) = Len(Catalog) THEN app.screen.ctrl
          ELSE Catalog[place(app.screen.ctrl) + 1]
    /\ previous(app.screen.ctrl) =
          IF place(app.screen.ctrl) = 1 THEN app.screen.ctrl
          ELSE Catalog[place(app.screen.ctrl) - 1]

C21_Witness ==
    /\ app.screen = PickTimeCtrl("Tab4")
    /\ next(app.screen.ctrl) = "Tab4"
    /\ previous(app.screen.ctrl) = "Tab3"
    /\ \E i \in 1..Len(queue) : queue[i].ev = Crossterm(Key("Left", "NONE"))

\* the tick_timer() and hit() calls made on a paused clock, one after the other
ClockCall == {"tick_timer", "hit"}
call(c, op) == IF op = "hit" THEN hit(c) ELSE tick_timer(c)
RECURSIVE calls(_, _)
calls(c, ops) == IF ops = <<>> THEN c ELSE calls(call(c, Head(ops)), Tail(ops))
CallSeqs == UNION {[1..n -> ClockCall] : n \in 0..MaxBetween}

\* C22 (SpecClock): on a clock whose state is Player(p), pause(), then up to
\* MaxBetween tick_timer() and hit() calls in any order, then pause() gives
\* state Player(p) again with both remaining times and the increment
\* unchanged, whatever the pause() calls are given as resume_player.
C22_PauseIsolates ==
    clock.state \in Player
        => \A r1 \in Player, r2 \in Player, ops \in CallSeqs :
              /\ pause(calls(pause(clock, r1), ops), r2).state = clock.state
              /\ pause(calls(pause(clock, r1), ops), r2).player1 = clock.player1
              /\ pause(calls(pause(clock, r1), ops), r2).player2 = clock.player2
              /\ pause(calls(pause(clock, r1), ops), r2).increment = clock.increment

\* C23 (SpecArrows): in every state of App::run the screen is PickTimeCtrl and the
\* loop has not panicked: no sequence of Tick, TimerTick, key and App events
\* reaches the todo!() arms of handle_key_events or the unreachable!() arms
\* of the draw.
C23_ScreenIsPickTimeCtrl ==
    /\ app.screen.screen = "PickTimeCtrl"
    /\ ~ui_panics(app)
    /\ pc # "panic"

C23_Witness ==
    /\ pc = "Ok"
    /\ ~app.running
    /\ app_is_time_out(app)
    /\ app.clock.turn = "Player1"
    /\ app.screen = PickTimeCtrl("Tab2")

\* C24 (SpecRecorded): once running is false no step of App::run takes an event from
\* the channel or changes the App: the events still queued change neither
\* the clock nor the screen.
C24_NothingHandledAfterQuit ==
    [][ ~app.running
        => /\ ~(RunTick \/ RunTimerTick \/ RunKey \/ RunResize
                  \/ RunTimeout \/ RunHitClock \/ RunQuit)
           /\ app' = app
           /\ Len(queue') >= Len(queue) ]_vars

C24_Witness ==
    /\ pc = "Ok"
    /\ ~app.running
    /\ app.clock.turn = "NotStarted"
    /\ Len(queue) = 2
    /\ recv_ev = App("Quit")
    /\ queue[1].ev = App("HitClock")
    /\ queue[2].ev = Crossterm(Key(" ", "NONE"))

====
